---- MODULE Spec2Model ----
(***************************************************************************)
(* Model of the EVE Frontier Discord bot (src/main.py).                    *)
(*                                                                         *)
(* A text is a sequence of one-character strings; NL is the line           *)
(* separator '\n'.  split_response is modelled as an operator that         *)
(* computes what the Python code computes, and is applied by the Call      *)
(* action of Spec to inputs drawn from bounded sets.                       *)
(***************************************************************************)
EXTENDS Integers, Sequences, FiniteSets, TLC

\* ---------------------------------------------------------------- bounds
MaxLen == 6          \* longest input text of the chunker specification
MaxChunkSize == 3    \* largest chunk_size argument passed explicitly
MaxRespLen == 3      \* longest response content the API returns
\* The default chunk_size (1990 at src/main.py:98), scaled down so that the
\* bounded responses fall on both sides of it.
DefaultChunkSize == 2

NL == "\n"
Alphabet == {"a", "b", NL}

\* every text of at most n characters over the alphabet S
TextsOver(S, n) == UNION {[1..k -> S] : k \in 0..n}

\* ------------------------------------------------- str.split('\n'), l.106
RECURSIVE SplitAcc(_, _, _)
SplitAcc(s, i, cur) ==
    IF i > Len(s) THEN <<cur>>
    ELSE IF s[i] = NL THEN <<cur>> \o SplitAcc(s, i + 1, <<>>)
    ELSE SplitAcc(s, i + 1, Append(cur, s[i]))

split(s) == SplitAcc(s, 1, <<>>)

\* ------------------------------------------------ split_response, l.98-118
\* l.100: if len(response) <= chunk_size
FitsWholeStrict(response, chunk_size) == Len(response) < chunk_size
FitsWhole(response, chunk_size) == Len(response) <= chunk_size

\* l.107: if len(current_chunk) + len(line) + 1 > chunk_size
OverflowsNoSeparator(current_chunk, line, chunk_size) ==
    Len(current_chunk) + Len(line) > chunk_size
OverflowsLineOnly(current_chunk, line, chunk_size) ==
    Len(line) + 1 > chunk_size
Overflows(current_chunk, line, chunk_size) ==
    Len(current_chunk) + Len(line) + 1 > chunk_size

\* l.111-113: if current_chunk: current_chunk += '\n' ; current_chunk += line
AppendLine(current_chunk, line) ==
    (IF current_chunk # <<>> THEN current_chunk \o <<NL>> ELSE current_chunk)
        \o line

\* l.106-116: the for loop over the lines and the final flush
RECURSIVE PackLines(_, _, _, _)
PackLines(lines, chunks, current_chunk, chunk_size) ==
    IF lines = <<>>
    THEN IF current_chunk # <<>> THEN Append(chunks, current_chunk) ELSE chunks
    ELSE LET line == Head(lines) IN
         IF Overflows(current_chunk, line, chunk_size)
         THEN PackLines(Tail(lines), Append(chunks, current_chunk), line,
                        chunk_size)
         ELSE PackLines(Tail(lines), chunks, AppendLine(current_chunk, line),
                        chunk_size)

split_response(response, chunk_size) ==
    IF FitsWhole(response, chunk_size)
    THEN <<response>>
    ELSE PackLines(split(response), <<>>, <<>>, chunk_size)

\* ------------------------------------------------------------ bot state
NumRequests == 2
\* the concurrent '!EVE smart create' commands
Requests == 1..NumRequests
Channels == {"c1", "c2"}
Null == "null"

\* l.96: the fixed reply of get_claude_response; one token stands for the
\* 53-character string, which like it is shorter than the default chunk_size
ErrorText == <<"E">>
\* l.69: the reply of the global error handler
CommandErrorText == <<"!">>

\* response contents the external API may return
Responses == TextsOver({"a", NL}, MaxRespLen)

VARIABLES
    text,          \* split_response: the response argument
    chunk_size,    \* split_response: the chunk_size argument
    result,        \* split_response: the returned list
    called,        \* whether split_response has returned
    doc_manager,   \* bot.doc_manager: "None" or "ready"
    pc,            \* per request: position in create_assembly
    chan,          \* per request: the channel of its ctx
    apiCalls,      \* per request: calls of claude.messages.create
    apiRaised,     \* per request: whether the API call raised
    apiContent,    \* per request: response.content of a successful call
    claude,        \* per request: "none", "running", "returned" or "raised"
    response,      \* per request: value returned by get_claude_response
    chunks,        \* per request: the list iterated at l.144
    idx,           \* per request: position of the for loop in chunks
    channel        \* per channel: the messages delivered, in order

chunkerVars == <<text, chunk_size, result, called>>
botVars == <<doc_manager, pc, chan, apiCalls, apiRaised, apiContent, claude,
             response, chunks, idx, channel>>
vars == <<text, chunk_size, result, called, doc_manager, pc, chan, apiCalls,
          apiRaised, apiContent, claude, response, chunks, idx, channel>>

\* l.16-36: the bot after construction, no command running
BotInit ==
    /\ doc_manager = "None"
    /\ pc = [r \in Requests |-> "idle"]
    /\ chan \in [Requests -> Channels]
    /\ apiCalls = [r \in Requests |-> 0]
    /\ apiRaised = [r \in Requests |-> FALSE]
    /\ apiContent = [r \in Requests |-> Null]
    /\ claude = [r \in Requests |-> "none"]
    /\ response = [r \in Requests |-> Null]
    /\ chunks = [r \in Requests |-> <<>>]
    /\ idx = [r \in Requests |-> 1]
    /\ channel = [c \in Channels |-> <<>>]

\* ------------------------------------------- specification of the chunker
Init ==
    /\ text \in TextsOver(Alphabet, MaxLen)
    /\ chunk_size \in 1..MaxChunkSize
    /\ result = <<>>
    /\ called = FALSE
    /\ BotInit
    /\ chan = [r \in Requests |-> "c1"]

\* split_response(text, chunk_size), l.98-118
Call ==
    /\ ~called
    /\ result' = split_response(text, chunk_size)
    /\ called' = TRUE
    /\ UNCHANGED <<text, chunk_size>>
    /\ UNCHANGED botVars

\* split_response(text) with the default chunk_size, l.98 and l.144
CallDefault ==
    /\ ~called
    /\ chunk_size' = DefaultChunkSize
    /\ result' = split_response(text, DefaultChunkSize)
    /\ called' = TRUE
    /\ UNCHANGED text
    /\ UNCHANGED botVars

Next == Call \/ CallDefault

Spec == Init /\ [][Next]_vars

\* ----------------------------------------------- specification of the bot
\* ctx.send(content) from the coroutine `by` of request r
Deliver(r, by, content) ==
    channel' = [channel EXCEPT ![chan[r]] =
                   Append(@, [req |-> r, by |-> by, content |-> content])]

\* l.45-47: the documentation manager gets initialised
SetDocManager ==
    /\ doc_manager = "None"
    /\ doc_manager' = "ready"
    /\ UNCHANGED <<pc, chan, apiCalls, apiRaised, apiContent, claude,
                   response, chunks, idx, channel>>
    /\ UNCHANGED chunkerVars

\* l.131-135: the command is invoked; bot.doc_manager.get_assembly_docs
\* raises AttributeError while doc_manager is None
Invoke(r) ==
    /\ pc[r] = "idle"
    /\ pc' = [pc EXCEPT ![r] = IF doc_manager = "None" THEN "error" ELSE "docs"]
    /\ UNCHANGED <<doc_manager, chan, apiCalls, apiRaised, apiContent, claude,
                   response, chunks, idx, channel>>
    /\ UNCHANGED chunkerVars

\* l.135-138: the documentation context arrives, get_claude_response starts
DocsReturn(r) ==
    /\ pc[r] = "docs"
    /\ pc' = [pc EXCEPT ![r] = "claude"]
    /\ claude' = [claude EXCEPT ![r] = "running"]
    /\ UNCHANGED <<doc_manager, chan, apiCalls, apiRaised, apiContent,
                   response, chunks, idx, channel>>
    /\ UNCHANGED chunkerVars

\* l.73-90: the try block submits the API call to a worker thread
ClaudeCall(r) ==
    /\ pc[r] = "claude"
    /\ pc' = [pc EXCEPT ![r] = "api"]
    /\ apiCalls' = [apiCalls EXCEPT ![r] = @ + 1]
    /\ UNCHANGED <<doc_manager, chan, apiRaised, apiContent, claude,
                   response, chunks, idx, channel>>
    /\ UNCHANGED chunkerVars

\* l.138-144: get_claude_response has returned value v; the command splits
\* it and enters the for loop
Respond(r, v) ==
    LET cs == split_response(v, DefaultChunkSize) IN
    /\ response' = [response EXCEPT ![r] = v]
    /\ claude' = [claude EXCEPT ![r] = "returned"]
    /\ chunks' = [chunks EXCEPT ![r] = cs]
    /\ idx' = [idx EXCEPT ![r] = 1]
    /\ pc' = [pc EXCEPT ![r] = IF cs = <<>> THEN "done" ELSE "send"]

\* l.81-92: the API call succeeds, response.content is returned
ApiReturn(r) ==
    /\ pc[r] = "api"
    /\ \E content \in Responses :
          /\ apiContent' = [apiContent EXCEPT ![r] = content]
          /\ Respond(r, content)
    /\ UNCHANGED <<doc_manager, chan, apiCalls, apiRaised, channel>>
    /\ UNCHANGED chunkerVars

\* a handler that tries the call again
ApiRaiseRetry(r) ==
    /\ pc[r] = "api"
    /\ apiRaised' = [apiRaised EXCEPT ![r] = TRUE]
    /\ pc' = [pc EXCEPT ![r] = "claude"]
    /\ UNCHANGED <<doc_manager, chan, apiCalls, apiContent, claude, response,
                   chunks, idx, channel>>
    /\ UNCHANGED chunkerVars

\* l.94-96: the API call raises; the handler logs and returns the fixed text
ApiRaise(r) ==
    /\ pc[r] = "api"
    /\ apiRaised' = [apiRaised EXCEPT ![r] = TRUE]
    /\ Respond(r, ErrorText)
    /\ UNCHANGED <<doc_manager, chan, apiCalls, apiContent, channel>>
    /\ UNCHANGED chunkerVars

\* a loop that sends the whole response at every iteration
SendWholeResponse(r) ==
    /\ pc[r] = "send"
    /\ Deliver(r, "create_assembly", response[r])
    /\ idx' = [idx EXCEPT ![r] = @ + 1]
    /\ pc' = [pc EXCEPT ![r] = IF idx[r] = Len(chunks[r]) THEN "done" ELSE "send"]
    /\ UNCHANGED <<doc_manager, chan, apiCalls, apiRaised, apiContent, claude,
                   response, chunks>>
    /\ UNCHANGED chunkerVars

\* l.144-145: one iteration of the for loop, await ctx.send(chunk) completes
Send(r) ==
    /\ pc[r] = "send"
    /\ Deliver(r, "create_assembly", chunks[r][idx[r]])
    /\ idx' = [idx EXCEPT ![r] = @ + 1]
    /\ pc' = [pc EXCEPT ![r] = IF idx[r] = Len(chunks[r]) THEN "done" ELSE "send"]
    /\ UNCHANGED <<doc_manager, chan, apiCalls, apiRaised, apiContent, claude,
                   response, chunks>>
    /\ UNCHANGED chunkerVars

\* l.145: ctx.send raises; the exception leaves the command
SendRaise(r) ==
    /\ pc[r] = "send"
    /\ pc' = [pc EXCEPT ![r] = "error"]
    /\ UNCHANGED <<doc_manager, chan, apiCalls, apiRaised, apiContent, claude,
                   response, chunks, idx, channel>>
    /\ UNCHANGED chunkerVars

\* l.61-69: on_command_error logs and replies for any other exception
OnCommandError(r) ==
    /\ pc[r] = "error"
    /\ Deliver(r, "on_command_error", CommandErrorText)
    /\ pc' = [pc EXCEPT ![r] = "failed"]
    /\ UNCHANGED <<doc_manager, chan, apiCalls, apiRaised, apiContent, claude,
                   response, chunks, idx>>
    /\ UNCHANGED chunkerVars

BotStart ==
    /\ text = <<>>
    /\ chunk_size = DefaultChunkSize
    /\ result = <<>>
    /\ called = FALSE
    /\ BotInit

BotNext ==
    \/ SetDocManager
    \/ \E r \in Requests : Invoke(r)
    \/ \E r \in Requests : DocsReturn(r)
    \/ \E r \in Requests : ClaudeCall(r)
    \/ \E r \in Requests : ApiReturn(r)
    \/ \E r \in Requests : ApiRaise(r)
    \/ \E r \in Requests : Send(r)
    \/ \E r \in Requests : SendRaise(r)
    \/ \E r \in Requests : OnCommandError(r)

BotSpec == BotStart /\ [][BotNext]_vars

\* ------------------------------------------------ operators of the claims
\* '\n'.join(seq)
RECURSIVE Join(_)
Join(seq) ==
    IF seq = <<>> THEN <<>>
    ELSE IF Len(seq) = 1 THEN seq[1]
    ELSE seq[1] \o <<NL>> \o Join(Tail(seq))

HasSeparator(s) == \E i \in DOMAIN s : s[i] = NL

\* number of positions of seq holding x
Count(seq, x) == Cardinality({i \in DOMAIN seq : seq[i] = x})

\* the lines of the chunks, read chunk by chunk
RECURSIVE FlattenLines(_)
FlattenLines(seq) ==
    IF seq = <<>> THEN <<>> ELSE split(Head(seq)) \o FlattenLines(Tail(seq))

IsNonEmpty(s) == s # <<>>
NonEmptyLines(seq) == SelectSeq(seq, IsNonEmpty)

\* a is b with some elements left out
RECURSIVE IsSubseq(_, _)
IsSubseq(a, b) ==
    IF a = <<>> THEN TRUE
    ELSE IF b = <<>> THEN FALSE
    ELSE IF Head(a) = Head(b) THEN IsSubseq(Tail(a), Tail(b))
    ELSE IsSubseq(a, Tail(b))

IsPrefix(a, b) == Len(a) <= Len(b) /\ SubSeq(b, 1, Len(a)) = a

\* the packer of section 4.1: the separator counts only when the buffer is
\* not empty
RECURSIVE ReferencePack(_, _, _, _)
ReferencePack(lines, sealed, buffer, size) ==
    IF lines = <<>>
    THEN IF buffer # <<>> THEN Append(sealed, buffer) ELSE sealed
    ELSE LET line == Head(lines)
             sep == IF buffer # <<>> THEN 1 ELSE 0
         IN  IF Len(buffer) + Len(line) + sep > size
             THEN ReferencePack(Tail(lines), Append(sealed, buffer), line, size)
             ELSE ReferencePack(Tail(lines), sealed,
                                (IF buffer # <<>> THEN buffer \o <<NL>>
                                 ELSE buffer) \o line, size)

\* the contents create_assembly of request r has sent to channel c, in order
RECURSIVE SentBy(_, _)
SentBy(r, log) ==
    IF log = <<>> THEN <<>>
    ELSE IF Head(log).req = r /\ Head(log).by = "create_assembly"
         THEN <<Head(log).content>> \o SentBy(r, Tail(log))
         ELSE SentBy(r, Tail(log))

\* ------------------------------------------------------------------ claims
\* C1: joining the chunks returned by split_response(text, chunk_size) with
\* the line separator reproduces the text exactly.
RoundTrip == called => Join(result) = text

\* C2: every returned chunk has length <= chunk_size, except a chunk that is
\* exactly one input line longer than chunk_size; a chunk of two or more
\* lines never exceeds chunk_size.
BoundRespected ==
    called =>
        \A i \in DOMAIN result :
            \/ Len(result[i]) <= chunk_size
            \/ /\ ~HasSeparator(result[i])
               /\ \E j \in DOMAIN split(text) : split(text)[j] = result[i]

\* C2 witness: a result holding both an over-long single-line chunk and a
\* chunk of several lines.
BoundRespectedWitness ==
    /\ called
    /\ \E i \in DOMAIN result : Len(result[i]) > chunk_size
    /\ \E i \in DOMAIN result : HasSeparator(result[i])

\* C3: when len(text) > chunk_size the result has one or more chunks and
\* no chunk is the empty string.
OutputShape ==
    (called /\ Len(text) > chunk_size) =>
        /\ Len(result) >= 1
        /\ \A i \in DOMAIN result : result[i] # <<>>

\* C4: a text without separator and longer than chunk_size is returned as
\* the single chunk [text].
SingleOverLongLine ==
    (called /\ ~HasSeparator(text) /\ Len(text) > chunk_size) =>
        result = <<text>>

\* C5: when len(text) > chunk_size the result is that of the reference
\* packer, which does not count the separator when the buffer is empty.
GreedyPacking ==
    (called /\ Len(text) > chunk_size) =>
        result = ReferencePack(split(text), <<>>, <<>>, chunk_size)

\* C6: when len(text) <= chunk_size the result is exactly [text], whatever
\* separators the text holds.
FastPath == (called /\ Len(text) <= chunk_size) => result = <<text>>

\* C6 witness: a short text with a separator has been returned whole.
FastPathWitness ==
    called /\ Len(text) <= chunk_size /\ HasSeparator(text) /\ result = <<text>>

\* C7: every input line longer than chunk_size is a chunk of its own: the
\* chunks equal to it are as many as its occurrences among the lines.
OverLongPassThrough ==
    called =>
        \A j \in DOMAIN split(text) :
            Len(split(text)[j]) > chunk_size =>
                Count(result, split(text)[j]) = Count(split(text), split(text)[j])

\* C7 witness: an over-long line between two other non-empty lines.
OverLongPassThroughWitness ==
    /\ called
    /\ \E j \in DOMAIN split(text) :
          /\ Len(split(text)[j]) > chunk_size
          /\ j > 1 /\ split(text)[j - 1] # <<>>
          /\ j < Len(split(text)) /\ split(text)[j + 1] # <<>>

\* C8: the lines read from the chunks are the input's lines in their order:
\* no line is invented, reordered or duplicated, and the non-empty lines are
\* exactly the non-empty input lines.
OrderingPreserved ==
    called =>
        /\ IsSubseq(FlattenLines(result), split(text))
        /\ NonEmptyLines(FlattenLines(result)) = NonEmptyLines(split(text))

\* C9: what create_assembly of a request has sent is always an initial part
\* of split_response(response), all of it once the command is done, and in
\* the request's own channel only.
DeliveryOrder ==
    \A r \in Requests :
        /\ \A c \in Channels \ {chan[r]} : SentBy(r, channel[c]) = <<>>
        /\ IF claude[r] = "returned"
           THEN LET expected == split_response(response[r], DefaultChunkSize)
                    sent == SentBy(r, channel[chan[r]])
                IN  /\ IsPrefix(sent, expected)
                    /\ pc[r] = "done" => sent = expected
           ELSE SentBy(r, channel[chan[r]]) = <<>>

\* C9 witness: two commands done in one channel, each of two or more chunks,
\* their messages interleaved.
DeliveryOrderWitness ==
    \E r1, r2 \in Requests :
        /\ r1 # r2 /\ chan[r1] = chan[r2]
        /\ pc[r1] = "done" /\ pc[r2] = "done"
        /\ Len(chunks[r1]) >= 2 /\ Len(chunks[r2]) >= 2
        /\ LET log == channel[chan[r1]] IN
           \E i, j, k \in DOMAIN log :
               /\ i < j /\ j < k
               /\ log[i].req = r1 /\ log[j].req = r2 /\ log[k].req = r1

\* C10: get_claude_response calls the API exactly once; a raising call
\* makes it return the fixed text instead of raising, a successful call
\* makes it return the response content.
NoRetry ==
    \A r \in Requests :
        /\ apiCalls[r] <= 1
        /\ apiRaised[r] => claude[r] = "returned"
        /\ claude[r] = "returned" =>
              /\ apiCalls[r] = 1
              /\ response[r] = IF apiRaised[r] THEN ErrorText ELSE apiContent[r]

\* C10 witness: one command whose API call raised and one whose call
\* succeeded, both returned from get_claude_response.
NoRetryWitness ==
    \E r1, r2 \in Requests :
        /\ claude[r1] = "returned" /\ apiRaised[r1]
        /\ claude[r2] = "returned" /\ ~apiRaised[r2]

====
